---------------------------- MODULE Spec2Model ----------------------------
(***************************************************************************)
(* A model of the AFib dashboard client (src/app.js): the classifier       *)
(* (mapCategory, mapStage, stagePriority), the facet builder               *)
(* (buildFilters / buildChips), the 2026 update feed (has2026Update,       *)
(* buildUpdateEntries), the filter predicate (matchesFilters) and the      *)
(* page life cycle (init, chip clicks, search input).                      *)
(*                                                                         *)
(* Text is modelled by TLA+ strings, read as sequences of characters       *)
(* (Len, SubSeq and \o apply to them), so that toLowerCase, includes,      *)
(* trim and join are computed character by character as the JavaScript     *)
(* built-ins do.  null / undefined text is the sentinel Null.  The boolean *)
(* flags press_2026 and bubble_exclude are only ever read for their         *)
(* truthiness, so an absent flag is represented by FALSE.                   *)
(***************************************************************************)
EXTENDS Integers, Sequences, FiniteSets, TLC

VARIABLES
    \* ---- the page (module-level state of app.js and the DOM it writes)
    pc,              \* position of init(): "start", "fetched", "ready", "failed"
    tz,              \* host time zone, hours east of UTC (fixed for a session)
    fetchCount,      \* number of fetch("data/afib.json") calls made
    state_data,      \* state.data
    state_filters,   \* state.filters: [category, stage, type -> set of values]
    state_search,    \* state.search
    chips,           \* chip buttons per container, in DOM order
    activeChips,     \* <<filterKey, value>> of the chips carrying class "active"
    searchListener,  \* whether the "input" listener of #search is registered
    asOf,            \* #asOf text
    cardGrid,        \* names of the cards in #cardGrid, in DOM order
    itemCount,       \* #itemCount text
    readoutCount,    \* #readoutCount text
    deviceUpdateList,\* #deviceUpdateList children
    drugUpdateList,  \* #drugUpdateList children
    weeklyLists,     \* the five weekly containers' children
    \* ---- classifier harness
    cl_item,         \* the item handed to mapCategory / mapStage
    cl_category,     \* mapCategory(cl_item)
    cl_stage,        \* mapStage(cl_item)
    \* ---- update feed harness (lines 310-311 of init on a bounded item list)
    in_items,        \* data.items
    derived,         \* the device and the drug update feed derived from it
    \* ---- facet harness (line 309 of init on a bounded item list)
    fc_items,        \* data.items
    fc_chips         \* the three chip rows buildFilters builds from it

pageVars == <<pc, fetchCount, state_data, state_filters, state_search, chips,
              activeChips, searchListener, asOf, cardGrid, itemCount,
              readoutCount, deviceUpdateList, drugUpdateList, weeklyLists>>
clVars == <<cl_item, cl_category, cl_stage>>
deriveVars == <<in_items, derived>>
facetVars == <<fc_items, fc_chips>>
vars == <<pageVars, tz, clVars, deriveVars, facetVars>>

-----------------------------------------------------------------------------
(* Bounds of the model *)

\* longest item list handed to the derivation harness
MaxItems == 7
\* how many of those items may be drawn from the varied item kinds
MaxVaried == 2
\* most words in a generated category / stage text
MaxWords == 2
\* longest item list handed to the facet harness
MaxFacetItems == 3

-----------------------------------------------------------------------------
(* JavaScript text primitives *)

Null == "<null>"

UpperChars == "ABCDEFGHIJKLMNOPQRSTUVWXYZ"
LowerChars == "abcdefghijklmnopqrstuvwxyz"
Digits == "0123456789"

RECURSIVE IndexIn(_, _, _)
\* 1-based position of character c in s at or after i, 0 when absent
IndexIn(c, s, i) ==
    IF i > Len(s) THEN 0
    ELSE IF SubSeq(s, i, i) = c THEN i
    ELSE IndexIn(c, s, i + 1)

\* each capital letter's lower-case letter
LowerOf ==
    [c \in {SubSeq(UpperChars, i, i) : i \in 1..Len(UpperChars)} |->
        LET k == IndexIn(c, UpperChars, 1) IN SubSeq(LowerChars, k, k)]

lowerChar(c) == IF c \in DOMAIN LowerOf THEN LowerOf[c] ELSE c

RECURSIVE toLowerCase(_)
\* String.prototype.toLowerCase, character by character (the text is split
\* in halves only to keep the evaluation shallow)
toLowerCase(s) ==
    IF Len(s) = 0 THEN ""
    ELSE IF Len(s) = 1 THEN lowerChar(s)
    ELSE LET h == Len(s) \div 2
         IN  toLowerCase(SubSeq(s, 1, h)) \o toLowerCase(SubSeq(s, h + 1, Len(s)))

\* String.prototype.includes
includes(haystack, needle) ==
    \E i \in 0..(Len(haystack) - Len(needle)) :
        SubSeq(haystack, i + 1, i + Len(needle)) = needle

RECURSIVE trimStart(_)
trimStart(s) ==
    IF Len(s) > 0 /\ SubSeq(s, 1, 1) = " " THEN trimStart(SubSeq(s, 2, Len(s)))
    ELSE s

RECURSIVE trimEnd(_)
trimEnd(s) ==
    IF Len(s) > 0 /\ SubSeq(s, Len(s), Len(s)) = " "
    THEN trimEnd(SubSeq(s, 1, Len(s) - 1))
    ELSE s

\* String.prototype.trim
trim(s) == trimEnd(trimStart(s))

\* value || fallback, for text: null, undefined and "" are falsy
OrElse(value, fallback) ==
    IF value = Null \/ value = "" THEN fallback ELSE value

\* truthiness of a text value
Truthy(value) == value # Null /\ value # ""

RECURSIVE join(_, _)
\* Array.prototype.join: null and undefined elements become ""
join(parts, sep) ==
    IF Len(parts) = 0 THEN ""
    ELSE LET head == IF parts[1] = Null THEN "" ELSE parts[1]
         IN  IF Len(parts) = 1 THEN head
             ELSE head \o sep \o join(Tail(parts), sep)

\* a template literal renders null as the text "null"
Interpolate(value) == IF value = Null THEN "null" ELSE value

Range(seq) == {seq[i] : i \in DOMAIN seq}

RECURSIVE KeepIndices(_, _, _)
\* the elements of seq at the positions in idx, from position i on, in order
KeepIndices(seq, idx, i) ==
    IF i > Len(seq) THEN <<>>
    ELSE IF i \in idx THEN <<seq[i]>> \o KeepIndices(seq, idx, i + 1)
    ELSE KeepIndices(seq, idx, i + 1)

\* Array.prototype.filter, given the positions whose element the callback
\* accepts
filter(seq, accepted) == KeepIndices(seq, accepted, 1)

RECURSIVE SelectSeqBy(_, _)
\* Array.prototype.filter with the set of kept values given
SelectSeqBy(seq, keep) ==
    IF Len(seq) = 0 THEN <<>>
    ELSE IF seq[1] \in keep THEN <<seq[1]>> \o SelectSeqBy(Tail(seq), keep)
    ELSE SelectSeqBy(Tail(seq), keep)

-----------------------------------------------------------------------------
(* Input data: items as data/afib.json holds them *)

Trial(name, status, readout, readout_date) ==
    [name |-> name, phase |-> "NA", status |-> status, readout |-> readout,
     readout_date |-> readout_date, registry_id |-> Null]

Item(name, type, category, stage, company, latest_update, trials, press, excluded) ==
    [name |-> name, type |-> type, category |-> category, stage |-> stage,
     company |-> company, mechanism |-> "ablation", focus |-> "AF",
     latest_update |-> latest_update, notes |-> "none", tags |-> <<"af">>,
     trials |-> trials, press_2026 |-> press, bubble_exclude |-> excluded]

\* the item kind the derivation harness may repeat up to MaxItems times: a
\* press-released device whose latest update is "Data expected 2026"
FillerKind == "press-pivotal"

VariedKinds ==
    {"plain-phase3", "trial-text", "excluded", "generic-drug", "drug-jan-2026",
     "device-jan-2027", "press-phase3"}

ItemOfKind(kind, name) ==
    CASE kind = "press-pivotal" ->
            Item(name, "Device", "PFA catheter", "Pivotal (IDE)", "Acme Medical",
                 "Data expected 2026", <<>>, TRUE, FALSE)
      [] kind = "press-phase3" ->
            Item(name, "Device", "Cryo balloon", "Phase III", "Acme Medical",
                 "Data expected 2026", <<>>, TRUE, FALSE)
      [] kind = "plain-phase3" ->
            Item(name, "Device", "RF ablation", "Phase 3", "Generic Devices",
                 "CE Mark filing 2026", <<>>, FALSE, FALSE)
      [] kind = "trial-text" ->
            Item(name, "Device", "LAA occlusion", "Approved (FDA)", Null,
                 Null, <<Trial("T1", "Recruiting", "Q4 2026", Null)>>,
                 FALSE, FALSE)
      [] kind = "excluded" ->
            Item(name, "Device", "Rhythm control", "Phase 2", "Acme Medical",
                 "Launch 2026", <<>>, TRUE, TRUE)
      [] kind = "generic-drug" ->
            Item(name, "Drug", "Rate control", "Approved", "Generic makers",
                 "Data expected 2026", <<>>, TRUE, FALSE)
      [] kind = "drug-jan-2026" ->
            Item(name, "Drug", "Anticoagulant (FXI)", "Phase II", "Anthos",
                 Null, <<Trial("T2", "Active", "TBD", "TBD"),
                         Trial("T3", "Active", Null, "2026-01-01")>>,
                 TRUE, FALSE)
      [] kind = "device-jan-2027" ->
            Item(name, "Device", "Digital health", Null, "Acme Medical",
                 "Enrollment complete 2025",
                 <<Trial("T4", "Active", Null, "2027-01-01")>>, FALSE, FALSE)

\* the item kinds of the facet harness: category text, stage text and type
FacetKinds ==
    {<<"Rate control", "Preclinical", "Drug">>,
     <<"Antiarrhythmic (class III)", "Phase 1", "Drug">>,
     <<"PFA catheter", "Phase 2", "Device">>,
     <<"Cryo balloon", "Phase 3", "Device">>,
     <<"LAA occlusion", "Pivotal (IDE)", "Implant">>,
     <<"Anticoagulant (FXI)", "FDA approved", "Drug">>,
     <<"Digital health", "Planned", "device">>,
     <<Null, "Marketed", "Device">>}

FacetItem(kind, name) ==
    Item(name, kind[3], kind[1], kind[2], "Acme Medical", Null, <<>>, FALSE, FALSE)

\* words the generated category texts are made of
CategoryWords ==
    {"Rate Control", "rhythm control", "Antiarrhythmic", "PFA", "RF", "Cryo",
     "thermal", "Stroke Prevention", "Anticoagulant", "(FXI)", "LAA", "Other"}

\* words the generated stage texts are made of
StageWords ==
    {"Preclinical", "IND", "Phase 1", "Phase I", "Phase 2", "Phase II",
     "Phase 3", "Phase III", "Pivotal", "Approved", "FDA", "CE Mark", "NMPA",
     "Pre-registered", "planned", "IDE", "Marketed"}

\* the texts of one to MaxWords of the words, joined by a space, with the
\* empty and the missing text
TextsOf(words) ==
    {join(ws, " ") : ws \in UNION {[1..n -> words] : n \in 1..MaxWords}}
        \cup {"", Null}

SampleCategories == {"Anticoagulant (FXI)", "PFA / RF", Null}

SampleStages == {"Phase III", "Pivotal (IDE)", Null}

-----------------------------------------------------------------------------
(* Classifier: app.js lines 30-75 and 138-147 *)

CATEGORY_ORDER ==
    <<"Rate Control", "Rhythm Control", "PFA Ablation", "Thermal Ablation",
      "Stroke Prevention">>

STAGE_ORDER ==
    <<"Preclinical", "Phase I", "Phase II", "Phase III", "Pivotal", "Approved",
      "Pre-registered">>

\* mapCategory with the thermal rule ahead of the PFA rule
mapCategory_thermalBeforePfa(item) ==
    LET category == toLowerCase(OrElse(item.category, ""))
    IN  IF includes(category, "rate control") THEN "Rate Control"
        ELSE IF includes(category, "rhythm control")
                \/ includes(category, "antiarrhythmic") THEN "Rhythm Control"
        ELSE IF includes(category, "rf") \/ includes(category, "cryo")
                \/ includes(category, "thermal") THEN "Thermal Ablation"
        ELSE IF includes(category, "pfa") THEN "PFA Ablation"
        ELSE IF includes(category, "stroke prevention")
                \/ includes(category, "anticoagulant")
                \/ includes(category, "fxi")
                \/ includes(category, "laa") THEN "Stroke Prevention"
        ELSE Null

mapCategory(item) ==
    LET category == toLowerCase(OrElse(item.category, ""))
    IN  IF includes(category, "rate control") THEN "Rate Control"
        ELSE IF includes(category, "rhythm control")
                \/ includes(category, "antiarrhythmic") THEN "Rhythm Control"
        ELSE IF includes(category, "pfa") THEN "PFA Ablation"
        ELSE IF includes(category, "rf") \/ includes(category, "cryo")
                \/ includes(category, "thermal") THEN "Thermal Ablation"
        ELSE IF includes(category, "stroke prevention")
                \/ includes(category, "anticoagulant")
                \/ includes(category, "fxi")
                \/ includes(category, "laa") THEN "Stroke Prevention"
        ELSE Null

mapStage(item) ==
    LET stage == toLowerCase(OrElse(item.stage, ""))
    IN  IF includes(stage, "preclinical") \/ includes(stage, "ind")
        THEN "Preclinical"
        ELSE IF includes(stage, "phase 1") \/ includes(stage, "phase i")
        THEN "Phase I"
        ELSE IF includes(stage, "phase 2") \/ includes(stage, "phase ii")
        THEN "Phase II"
        ELSE IF includes(stage, "phase 3") \/ includes(stage, "phase iii")
        THEN "Phase III"
        ELSE IF includes(stage, "pivotal") THEN "Pivotal"
        ELSE IF includes(stage, "approved") \/ includes(stage, "fda")
                \/ includes(stage, "ce mark") \/ includes(stage, "nmpa")
        THEN "Approved"
        ELSE IF includes(stage, "pre-registered") \/ includes(stage, "planned")
                \/ includes(stage, "ide")
        THEN "Pre-registered"
        ELSE Null

stagePriority(stage) ==
    LET value == toLowerCase(OrElse(stage, ""))
    IN  IF includes(value, "phase 3") \/ includes(value, "phase iii") THEN 1
        ELSE IF includes(value, "phase 2") \/ includes(value, "phase ii") THEN 2
        ELSE IF includes(value, "phase 1") \/ includes(value, "phase i") THEN 3
        ELSE IF includes(value, "pivotal") THEN 4
        ELSE IF includes(value, "preclinical") THEN 5
        ELSE IF includes(value, "approved") \/ includes(value, "fda")
                \/ includes(value, "ce mark") THEN 9
        ELSE 6

\* The classifier's values on the texts of the item kinds, computed once.
\* cachedMapCategory, cachedMapStage and cachedStagePriority are mapCategory,
\* mapStage and stagePriority looked up in these tables.
KnownKinds == {FillerKind} \cup VariedKinds

KnownCategoryTexts ==
    {ItemOfKind(kind, "").category : kind \in KnownKinds}
        \cup {kind[1] : kind \in FacetKinds}

KnownStageTexts ==
    {ItemOfKind(kind, "").stage : kind \in KnownKinds}
        \cup {kind[2] : kind \in FacetKinds} \cup {""}

CategoryCache == [c \in KnownCategoryTexts |-> mapCategory([category |-> c])]

StageCache == [t \in KnownStageTexts |-> mapStage([stage |-> t])]

PriorityCache == [t \in KnownStageTexts |-> stagePriority(t)]

cachedMapCategory(item) ==
    IF item.category \in KnownCategoryTexts THEN CategoryCache[item.category]
    ELSE mapCategory(item)

cachedMapStage(item) ==
    IF item.stage \in KnownStageTexts THEN StageCache[item.stage]
    ELSE mapStage(item)

cachedStagePriority(stage) ==
    IF stage \in KnownStageTexts THEN PriorityCache[stage]
    ELSE stagePriority(stage)

-----------------------------------------------------------------------------
(* Dates: new Date(text) and the local-time getters, app.js lines 82-93, 134 *)

\* host zones, in hours east of UTC.  Midnight UTC falls on the same calendar
\* day in every zone at or east of Greenwich, which 0 stands for, and on the
\* previous day in every zone west of it, which -5 stands for.
TimeZones == {-5, 0}

InvalidDate == [valid |-> FALSE, y |-> 0, m |-> 0, d |-> 0]

IsDigits(s) == \A i \in 1..Len(s) : IndexIn(SubSeq(s, i, i), Digits, 1) # 0

RECURSIVE ToNumber(_)
\* the number a text of decimal digits denotes
ToNumber(s) ==
    IF Len(s) = 0 THEN 0
    ELSE 10 * ToNumber(SubSeq(s, 1, Len(s) - 1))
         + (IndexIn(SubSeq(s, Len(s), Len(s)), Digits, 1) - 1)

IsLeap(y) == (y % 4 = 0 /\ y % 100 # 0) \/ y % 400 = 0

DaysInMonth(y, m) ==
    IF m = 2 THEN (IF IsLeap(y) THEN 29 ELSE 28)
    ELSE IF m \in {4, 6, 9, 11} THEN 30
    ELSE 31

\* new Date(text) for the date-only ISO form "YYYY-MM-DD", which ECMAScript
\* reads as midnight UTC of that day; any other text used here ("TBD", "")
\* is an Invalid Date.  The record is the UTC calendar day of the instant.
NewDate(text) ==
    IF Len(text) = 10
       /\ SubSeq(text, 5, 5) = "-" /\ SubSeq(text, 8, 8) = "-"
       /\ IsDigits(SubSeq(text, 1, 4)) /\ IsDigits(SubSeq(text, 6, 7))
       /\ IsDigits(SubSeq(text, 9, 10))
    THEN LET y == ToNumber(SubSeq(text, 1, 4))
             m == ToNumber(SubSeq(text, 6, 7))
             d == ToNumber(SubSeq(text, 9, 10))
         IN  IF m \in 1..12 /\ d \in 1..DaysInMonth(y, m)
             THEN [valid |-> TRUE, y |-> y, m |-> m, d |-> d]
             ELSE InvalidDate
    ELSE InvalidDate

\* the calendar day before a valid date
PrevDay(date) ==
    IF date.d > 1 THEN [date EXCEPT !.d = date.d - 1]
    ELSE IF date.m > 1
    THEN [date EXCEPT !.m = date.m - 1, !.d = DaysInMonth(date.y, date.m - 1)]
    ELSE [date EXCEPT !.y = date.y - 1, !.m = 12, !.d = 31]

\* the host-local calendar day of midnight UTC of `date`: west of Greenwich
\* (zone < 0) it is still the evening of the previous day
LocalDay(date, zone) == IF zone < 0 THEN PrevDay(date) ELSE date

\* Date.prototype.getFullYear; NaN (here -1) for an Invalid Date
getFullYear(date, zone) ==
    IF date.valid THEN LocalDay(date, zone).y ELSE -1

parseDate(dateStr) ==
    IF ~Truthy(dateStr) THEN InvalidDate ELSE NewDate(dateStr)

RECURSIVE NumToStr(_)
NumToStr(n) ==
    IF n < 10 THEN SubSeq(Digits, n + 1, n + 1)
    ELSE NumToStr(n \div 10) \o SubSeq(Digits, (n % 10) + 1, (n % 10) + 1)

MonthShort ==
    <<"Jan", "Feb", "Mar", "Apr", "May", "Jun", "Jul", "Aug", "Sep", "Oct",
      "Nov", "Dec">>

\* toLocaleDateString with year numeric, month short, day numeric, as the
\* en-US locale renders it
formatDate(dateStr, zone) ==
    LET date == parseDate(dateStr)
    IN  IF ~date.valid THEN OrElse(dateStr, "-")
        ELSE LET l == LocalDay(date, zone)
             IN  MonthShort[l.m] \o " " \o NumToStr(l.d) \o ", " \o NumToStr(l.y)

-----------------------------------------------------------------------------
(* Update feed: app.js lines 129-165 *)

\* the year has2026Update looks for
TargetYear == 2026
\* slice(0, 6)
FeedLimit == 6

\* has2026Update without its latest_update rule
has2026Update_trialsOnly(item, zone) ==
    IF item.bubble_exclude THEN FALSE
    ELSE \E i \in DOMAIN item.trials :
            LET trial == item.trials[i]
            IN  IF Truthy(trial.readout) /\ includes(trial.readout, "2026")
                THEN TRUE
                ELSE IF Truthy(trial.readout_date)
                THEN getFullYear(NewDate(trial.readout_date), zone) = TargetYear
                ELSE FALSE

has2026Update(item, zone) ==
    IF item.bubble_exclude THEN FALSE
    ELSE IF Truthy(item.latest_update) /\ includes(item.latest_update, "2026")
    THEN TRUE
    ELSE \E i \in DOMAIN item.trials :
            LET trial == item.trials[i]
            IN  IF Truthy(trial.readout) /\ includes(trial.readout, "2026")
                THEN TRUE
                ELSE IF Truthy(trial.readout_date)
                THEN getFullYear(NewDate(trial.readout_date), zone) = TargetYear
                ELSE FALSE

\* isGenericDrug without its type test
isGenericDrug_anyType(item) ==
    includes(toLowerCase(OrElse(item.company, "")), "generic")

\* the first filter of buildUpdateEntries: /generic/i.test(item.company || "")
isGenericDrug(item) ==
    item.type = "Drug" /\ includes(toLowerCase(OrElse(item.company, "")), "generic")

toUpdateEntry(item) ==
    [name   |-> item.name,
     update |-> OrElse(item.latest_update, "2026 update noted in trials"),
     type   |-> item.type,
     press  |-> item.press_2026,
     stage  |-> OrElse(item.stage, "")]

\* compareEntries without its press rule
compareEntries_stageOnly(a, b) ==
    cachedStagePriority(a.stage) - cachedStagePriority(b.stage)

\* the comparator handed to sort
compareEntries(a, b) ==
    IF a.press # b.press THEN (IF a.press THEN -1 ELSE 1)
    ELSE cachedStagePriority(a.stage) - cachedStagePriority(b.stage)

RECURSIVE InsertSorted(_, _)
\* e placed behind every element it does not sort strictly before
InsertSorted(sorted, e) ==
    IF Len(sorted) = 0 THEN <<e>>
    ELSE IF compareEntries(e, sorted[1]) < 0 THEN <<e>> \o sorted
    ELSE <<sorted[1]>> \o InsertSorted(Tail(sorted), e)

RECURSIVE SortFrom(_, _)
SortFrom(done, rest) ==
    IF Len(rest) = 0 THEN done
    ELSE SortFrom(InsertSorted(done, rest[1]), Tail(rest))

\* Array.prototype.sort with compareEntries; the sort is stable (ECMAScript
\* 2019), and compareEntries is a consistent comparator
sortEntries(seq) == SortFrom(<<>>, seq)

slice(seq, from, to) ==
    SubSeq(seq, from + 1, IF to < Len(seq) THEN to ELSE Len(seq))

buildUpdateEntries(items, zone) ==
    LET notGeneric == filter(items, {i \in DOMAIN items : ~isGenericDrug(items[i])})
        kept == filter(notGeneric, {i \in DOMAIN notGeneric :
                                       has2026Update(notGeneric[i], zone)})
        entries == [i \in DOMAIN kept |-> toUpdateEntry(kept[i])]
    IN  slice(sortEntries(entries), 0, FeedLimit)

\* the argument of the two calls in init: data.items.filter(type === ...)
itemsOfType(items, type) ==
    filter(items, {i \in DOMAIN items : items[i].type = type})

-----------------------------------------------------------------------------
(* Facets: app.js lines 28 and 95-110 *)

\* collation order of the characters used: punctuation, digits, then letters
\* with each lower-case letter just before its capital
CollationChars ==
    " -()/0123456789aAbBcCdDeEfFgGhHiIjJkKlLmMnNoOpPqQrRsStTuUvVwWxXyYzZ"

RECURSIVE LexLess(_, _)
LexLess(a, b) ==
    IF Len(b) = 0 THEN FALSE
    ELSE IF Len(a) = 0 THEN TRUE
    ELSE LET ra == IndexIn(SubSeq(a, 1, 1), CollationChars, 1)
             rb == IndexIn(SubSeq(b, 1, 1), CollationChars, 1)
         IN  IF ra # rb THEN ra < rb
             ELSE LexLess(SubSeq(a, 2, Len(a)), SubSeq(b, 2, Len(b)))

\* a.localeCompare(b): letters first, case only to break a tie
localeCompare(a, b) ==
    LET la == toLowerCase(a)
        lb == toLowerCase(b)
    IN  IF la # lb THEN (IF LexLess(la, lb) THEN -1 ELSE 1)
        ELSE IF a = b THEN 0
        ELSE IF LexLess(a, b) THEN -1 ELSE 1

\* localeCompare on the values that can be chips, computed once
KnownChipTexts ==
    Range(CATEGORY_ORDER) \cup Range(STAGE_ORDER)
        \cup {"Device", "Drug", "Implant", "device"}

CompareCache == [pair \in KnownChipTexts \X KnownChipTexts |->
                    localeCompare(pair[1], pair[2])]

cachedLocaleCompare(a, b) ==
    IF a \in KnownChipTexts /\ b \in KnownChipTexts THEN CompareCache[<<a, b>>]
    ELSE localeCompare(a, b)

RECURSIVE SortTexts(_)
\* the texts of a set in localeCompare order
SortTexts(S) ==
    IF S = {} THEN <<>>
    ELSE LET least == CHOOSE x \in S : \A y \in S : cachedLocaleCompare(x, y) <= 0
         IN  <<least>> \o SortTexts(S \ {least})

\* uniq = Array.from(new Set(arr)).sort(localeCompare)
uniq(arr) == SortTexts(Range(arr))

\* the default value of buildChips' preferredOrder parameter (null)
NoPreferredOrder == <<Null>>

\* buildChips without its preferred order
buildChips_asGiven(values, preferredOrder) == values

\* the chips buildChips appends to its container, in order
buildChips(values, preferredOrder) ==
    IF preferredOrder # NoPreferredOrder
    THEN SelectSeqBy(preferredOrder, Range(values))
    ELSE values

\* mapped.filter(Boolean)
filterTruthy(mapped) == filter(mapped, {i \in DOMAIN mapped : Truthy(mapped[i])})

\* the three chip rows buildFilters builds
buildFilters(items) ==
    LET categories ==
            uniq(filterTruthy([i \in DOMAIN items |-> cachedMapCategory(items[i])]))
        stages ==
            uniq(filterTruthy([i \in DOMAIN items |-> cachedMapStage(items[i])]))
        types == uniq([i \in DOMAIN items |-> items[i].type])
    IN  [category |-> buildChips(categories, CATEGORY_ORDER),
         stage    |-> buildChips(stages, STAGE_ORDER),
         type     |-> buildChips(types, NoPreferredOrder)]

-----------------------------------------------------------------------------
(* Update feed harness: the two feeds of init (lines 310-311) derived from   *)
(* every bounded item list                                                  *)

Derive(items, zone) ==
    [deviceUpdates |-> buildUpdateEntries(itemsOfType(items, "Device"), zone),
     drugUpdates   |-> buildUpdateEntries(itemsOfType(items, "Drug"), zone)]

VariedCount(items) ==
    Cardinality({i \in DOMAIN items :
                    items[i] # ItemOfKind(FillerKind, items[i].name)})

\* one more item is appended to data.items and everything is derived afresh
AddItem(kind) ==
    /\ Len(in_items) < MaxItems
    /\ kind = FillerKind \/ VariedCount(in_items) < MaxVaried
    /\ LET name == "item" \o NumToStr(Len(in_items) + 1)
           items == Append(in_items, ItemOfKind(kind, name))
       IN  /\ in_items' = items
           /\ derived' = Derive(items, tz)
    /\ UNCHANGED <<pageVars, tz, clVars, facetVars>>

-----------------------------------------------------------------------------
(* Facet harness: buildFilters (line 309 of init) on every bounded item list *)

\* one more item is appended to data.items and the chip rows are built afresh
AddFacetItem(kind) ==
    /\ Len(fc_items) < MaxFacetItems
    /\ LET name == "item" \o NumToStr(Len(fc_items) + 1)
       IN  fc_items' = Append(fc_items, FacetItem(kind, name))
    /\ fc_chips' = buildFilters(fc_items')
    /\ UNCHANGED <<pageVars, tz, clVars, deriveVars>>

\* the item of the classifier harness before one is handed in
NoItem == [category |-> Null, stage |-> Null]

\* mapCategory and mapStage applied to an item of generated texts, once
Classify(category, stage) ==
    /\ cl_item = NoItem
    /\ cl_item' = [category |-> category, stage |-> stage]
    /\ cl_category' = mapCategory(cl_item')
    /\ cl_stage' = mapStage(cl_item')
    /\ UNCHANGED <<pageVars, tz, deriveVars, facetVars>>

-----------------------------------------------------------------------------
(* Filter predicate and rendering: app.js lines 167-301 *)

trialText(trial) ==
    Interpolate(trial.name) \o " " \o Interpolate(trial.status) \o " "
        \o OrElse(trial.readout, "")

haystackOf(item) ==
    join(<<item.name, item.company, item.mechanism, item.focus, item.category,
           item.stage, item.type, item.latest_update, item.notes>>
         \o item.tags
         \o [i \in DOMAIN item.trials |-> trialText(item.trials[i])],
         " ")

normalize(value) == toLowerCase(value)

textIncludes(haystack, needle) == includes(normalize(haystack), normalize(needle))

\* matchesFilters without its type test
matchesFilters_typeUnchecked(item, filters, search) ==
    LET mappedCategory == cachedMapCategory(item)
        mappedStage == cachedMapStage(item)
    IN  IF filters.category # {} /\ mappedCategory \notin filters.category
        THEN FALSE
        ELSE IF filters.stage # {} /\ mappedStage \notin filters.stage
        THEN FALSE
        ELSE IF ~Truthy(search) THEN TRUE
        ELSE textIncludes(haystackOf(item), search)

matchesFilters(item, filters, search) ==
    LET mappedCategory == cachedMapCategory(item)
        mappedStage == cachedMapStage(item)
    IN  IF filters.category # {} /\ mappedCategory \notin filters.category
        THEN FALSE
        ELSE IF filters.stage # {} /\ mappedStage \notin filters.stage
        THEN FALSE
        ELSE IF filters.type # {} /\ item.type \notin filters.type
        THEN FALSE
        ELSE IF ~Truthy(search) THEN TRUE
        ELSE textIncludes(haystackOf(item), search)

\* what buildCard writes into the card of an item
buildCard(item) ==
    [title     |-> item.name,
     sub       |-> item.category,
     pill      |-> item.stage,
     mechanism |-> item.mechanism,
     focus     |-> item.focus,
     latest    |-> item.latest_update,
     trials    |-> join([i \in DOMAIN item.trials |-> item.trials[i].name], ", "),
     company   |-> item.company,
     tags      |-> item.tags]

\* the children of #cardGrid after renderCards: one card per matching item
renderCards(data, filters, search) ==
    LET items == filter(data.items,
                        {i \in DOMAIN data.items :
                            matchesFilters(data.items[i], filters, search)})
    IN  [i \in DOMAIN items |-> buildCard(items[i])]

\* the text of #itemCount after renderCards: String(items.length), one card
\* having been appended per item
itemCountText(cards) == NumToStr(Len(cards))

\* the children renderUpdateList leaves in its container
renderUpdateList(entries) ==
    IF Len(entries) = 0 THEN <<[text |-> "No 2026 updates found."]>>
    ELSE [i \in DOMAIN entries |->
            [name |-> entries[i].name, update |-> entries[i].update,
             pressTag |-> entries[i].press]]

renderWeeklyList(entries) ==
    IF Len(entries) = 0 THEN <<[text |-> "No updates logged."]>>
    ELSE [i \in DOMAIN entries |->
            [title  |-> entries[i].title,
             date   |-> OrElse(entries[i].date, "Date TBD"),
             source |-> OrElse(entries[i].source, "Source TBD")]]

\* a dataset without weekly_updates
NoWeekly == [absent |-> TRUE]

renderWeeklyIntel(weekly, current) ==
    IF weekly = NoWeekly THEN current
    ELSE [safety     |-> renderWeeklyList(weekly.safety_signals),
          label      |-> renderWeeklyList(weekly.label_expansions),
          guideline  |-> renderWeeklyList(weekly.guideline_updates),
          conference |-> renderWeeklyList(weekly.conference_abstracts),
          press      |-> renderWeeklyList(weekly.press_pipeline)]

-----------------------------------------------------------------------------
(* The datasets the fetch may return *)

Datasets ==
    {[as_of |-> "2026-01-01",
      items |-> <<ItemOfKind("press-pivotal", "Farapulse"),
                  ItemOfKind("drug-jan-2026", "Abelacimab"),
                  ItemOfKind("plain-phase3", "Sphere-9"),
                  ItemOfKind("device-jan-2027", "Watch app")>>,
      weekly_updates |->
          [safety_signals |-> <<[title |-> "Recall", date |-> Null,
                                 source |-> "FDA"]>>,
           label_expansions |-> <<>>, guideline_updates |-> <<>>,
           conference_abstracts |-> <<>>, press_pipeline |-> <<>>]],
     [as_of |-> "TBD",
      items |-> <<ItemOfKind("generic-drug", "Digoxin"),
                  ItemOfKind("trial-text", "Watchman"),
                  ItemOfKind("excluded", "Legacy RF"),
                  ItemOfKind("press-phase3", "Arctic Front")>>,
      weekly_updates |-> NoWeekly],
     [as_of |-> Null,
      items |-> [i \in 1..7 |->
                    ItemOfKind(IF i = 4 THEN "drug-jan-2026" ELSE "press-pivotal",
                               "PFA " \o NumToStr(i))],
      weekly_updates |-> NoWeekly],
     [as_of |-> "2026-03-01", items |-> <<>>, weekly_updates |-> NoWeekly]}

\* what the user may type into #search
SearchInputs == {"", "  ", " PFA ", "fda"}

-----------------------------------------------------------------------------
(* The page: state (lines 1-9), init (lines 303-324), the chip click        *)
(* listener (lines 114-124) and the search listener (lines 318-321)         *)

\* state.data before the dataset is stored
NullData == [null |-> TRUE]

FilterKeys == {"category", "stage", "type"}

Init ==
    /\ pc = "start"
    /\ tz \in TimeZones
    /\ fetchCount = 0
    /\ state_data = NullData
    /\ state_filters = [category |-> {}, stage |-> {}, type |-> {}]
    /\ state_search = ""
    /\ chips = [category |-> <<>>, stage |-> <<>>, type |-> <<>>]
    /\ activeChips = {}
    /\ searchListener = FALSE
    /\ asOf = ""
    /\ cardGrid = <<>>
    /\ itemCount = ""
    /\ readoutCount = ""
    /\ deviceUpdateList = <<>>
    /\ drugUpdateList = <<>>
    /\ weeklyLists = [safety |-> <<>>, label |-> <<>>, guideline |-> <<>>,
                      conference |-> <<>>, press |-> <<>>]
    /\ cl_item = NoItem
    /\ cl_category = Null
    /\ cl_stage = Null
    /\ in_items = <<>>
    /\ derived = [deviceUpdates |-> <<>>, drugUpdates |-> <<>>]
    /\ fc_items = <<>>
    /\ fc_chips = [category |-> <<>>, stage |-> <<>>, type |-> <<>>]

\* await fetch("data/afib.json") resolves
FetchOk ==
    /\ pc = "start"
    /\ pc' = "fetched"
    /\ fetchCount' = fetchCount + 1
    /\ UNCHANGED <<state_data, state_filters, state_search, chips, activeChips,
                   searchListener, asOf, cardGrid, itemCount, readoutCount,
                   deviceUpdateList, drugUpdateList, weeklyLists>>
    /\ UNCHANGED <<tz, clVars, deriveVars, facetVars>>

\* await fetch(...) rejects: init's promise rejects, nothing catches it
FetchFail ==
    /\ pc = "start"
    /\ pc' = "failed"
    /\ fetchCount' = fetchCount + 1
    /\ UNCHANGED <<state_data, state_filters, state_search, chips, activeChips,
                   searchListener, asOf, cardGrid, itemCount, readoutCount,
                   deviceUpdateList, drugUpdateList, weeklyLists>>
    /\ UNCHANGED <<tz, clVars, deriveVars, facetVars>>

\* await response.json() rejects (the body is not JSON): likewise
JsonFail ==
    /\ pc = "fetched"
    /\ pc' = "failed"
    /\ UNCHANGED <<fetchCount, state_data, state_filters, state_search, chips,
                   activeChips, searchListener, asOf, cardGrid, itemCount,
                   readoutCount, deviceUpdateList, drugUpdateList, weeklyLists>>
    /\ UNCHANGED <<tz, clVars, deriveVars, facetVars>>

\* await response.json() resolves with data; the rest of init runs in one turn
JsonOk(data) ==
    /\ pc = "fetched"
    /\ pc' = "ready"
    /\ state_data' = data
    /\ asOf' = formatDate(data.as_of, tz)
    /\ chips' = buildFilters(data.items)
    /\ activeChips' = {}
    /\ LET deviceUpdates == buildUpdateEntries(itemsOfType(data.items, "Device"), tz)
           drugUpdates == buildUpdateEntries(itemsOfType(data.items, "Drug"), tz)
       IN  /\ deviceUpdateList' = renderUpdateList(deviceUpdates)
           /\ drugUpdateList' = renderUpdateList(drugUpdates)
           /\ readoutCount' = NumToStr(Len(deviceUpdates) + Len(drugUpdates))
    /\ weeklyLists' = renderWeeklyIntel(data.weekly_updates, weeklyLists)
    /\ cardGrid' = renderCards(data, state_filters, state_search)
    /\ itemCount' = itemCountText(cardGrid')
    /\ searchListener' = TRUE
    /\ UNCHANGED <<fetchCount, state_filters, state_search>>
    /\ UNCHANGED <<tz, clVars, deriveVars, facetVars>>

\* the click listener without its call of renderCards
ChipClick_noRender(filterKey, value) ==
    /\ value \in Range(chips[filterKey])
    /\ LET set == state_filters[filterKey]
       IN  /\ state_filters' =
                  [state_filters EXCEPT
                      ![filterKey] = IF value \in set THEN set \ {value}
                                     ELSE set \cup {value}]
           /\ activeChips' = IF value \in set
                             THEN activeChips \ {<<filterKey, value>>}
                             ELSE activeChips \cup {<<filterKey, value>>}
    /\ UNCHANGED <<pc, fetchCount, state_data, state_search, chips,
                   searchListener, asOf, readoutCount, deviceUpdateList,
                   drugUpdateList, weeklyLists, cardGrid, itemCount>>
    /\ UNCHANGED <<tz, clVars, deriveVars, facetVars>>

\* the click listener of the chip `value` of row filterKey
ChipClick(filterKey, value) ==
    /\ value \in Range(chips[filterKey])
    /\ LET set == state_filters[filterKey]
           filters == [state_filters EXCEPT
                          ![filterKey] = IF value \in set THEN set \ {value}
                                         ELSE set \cup {value}]
       IN  /\ state_filters' = filters
           /\ activeChips' = IF value \in set
                             THEN activeChips \ {<<filterKey, value>>}
                             ELSE activeChips \cup {<<filterKey, value>>}
    /\ cardGrid' = renderCards(state_data, state_filters', state_search)
    /\ itemCount' = itemCountText(cardGrid')
    /\ UNCHANGED <<pc, fetchCount, state_data, state_search, chips,
                   searchListener, asOf, readoutCount, deviceUpdateList,
                   drugUpdateList, weeklyLists>>
    /\ UNCHANGED <<tz, clVars, deriveVars, facetVars>>

\* the input listener of #search, with event.target.value = text
SearchInput(text) ==
    /\ searchListener
    /\ state_search' = trim(text)
    /\ cardGrid' = renderCards(state_data, state_filters, state_search')
    /\ itemCount' = itemCountText(cardGrid')
    /\ UNCHANGED <<pc, fetchCount, state_data, state_filters, chips, activeChips,
                   searchListener, asOf, readoutCount, deviceUpdateList,
                   drugUpdateList, weeklyLists>>
    /\ UNCHANGED <<tz, clVars, deriveVars, facetVars>>

Next ==
    \/ FetchOk
    \/ FetchFail
    \/ JsonFail
    \/ \E data \in Datasets : JsonOk(data)
    \/ \E filterKey \in FilterKeys :
          \E value \in Range(chips[filterKey]) : ChipClick(filterKey, value)
    \/ \E text \in SearchInputs : SearchInput(text)

Spec == Init /\ [][Next]_vars

-----------------------------------------------------------------------------
(* The harnesses as specifications *)

NextDerive == \E kind \in {FillerKind} \cup VariedKinds : AddItem(kind)

SpecDerive == Init /\ [][NextDerive]_vars

NextFacets == \E kind \in FacetKinds : AddFacetItem(kind)

\* the chip rows and the classifier do not read the time zone
InitUTC == Init /\ tz = 0

SpecFacets == InitUTC /\ [][NextFacets]_vars

NextClassify ==
    \E pair \in (TextsOf(CategoryWords) \X SampleStages)
                    \cup (SampleCategories \X TextsOf(StageWords)) :
        Classify(pair[1], pair[2])

SpecClassify == InitUTC /\ [][NextClassify]_vars

-----------------------------------------------------------------------------
(* Properties of the update feed (SpecDerive) *)

\* the two calls of buildUpdateEntries: the item list passed and the result
FeedCalls ==
    {[input |-> itemsOfType(in_items, "Device"), output |-> derived.deviceUpdates],
     [input |-> itemsOfType(in_items, "Drug"), output |-> derived.drugUpdates]}

\* the positions of the items of `input` an entry is derived from
SourcesOf(entry, input) == {i \in DOMAIN input : input[i].name = entry.name}

ContainsIgnoringCase(text, word) ==
    includes(toLowerCase(text), toLowerCase(word))

\* the date text names a day that, as midnight UTC, falls in calendar year
\* 2026 of the host's zone
FallsIn2026(dateText, zone) ==
    LET date == NewDate(dateText)
    IN  /\ date.valid
        /\ IF zone < 0
           THEN \/ date.y = 2026 /\ ~(date.m = 1 /\ date.d = 1)
                \/ date.y = 2027 /\ date.m = 1 /\ date.d = 1
           ELSE date.y = 2026

Has2026(item, zone) ==
    \/ item.latest_update # Null /\ includes(item.latest_update, "2026")
    \/ \E i \in DOMAIN item.trials :
          \/ item.trials[i].readout # Null /\ includes(item.trials[i].readout, "2026")
          \/ item.trials[i].readout_date # Null
             /\ FallsIn2026(item.trials[i].readout_date, zone)

GenericDrug(item) ==
    item.type = "Drug" /\ item.company # Null
        /\ ContainsIgnoringCase(item.company, "generic")

Qualifies(item, zone) ==
    ~item.bubble_exclude /\ ~GenericDrug(item) /\ Has2026(item, zone)

\* C1: every result of buildUpdateEntries has at most 6 entries, lists every
\* press=true entry before every press=false entry and, within each press
\* group, in non-decreasing stagePriority, and holds no entry derived from an
\* item flagged bubble_exclude.
C1_FeedBoundedSortedNoExcluded ==
    \A call \in FeedCalls :
        LET out == call.output
        IN  /\ Len(out) <= 6
            /\ \A p, q \in DOMAIN out :
                  p < q =>
                    /\ out[q].press => out[p].press
                    /\ out[p].press = out[q].press =>
                          cachedStagePriority(out[p].stage)
                              <= cachedStagePriority(out[q].stage)
            /\ \A p \in DOMAIN out :
                  \A i \in SourcesOf(out[p], call.input) :
                      ~call.input[i].bubble_exclude

\* a full device feed with press and plain entries, built from a list that
\* holds an excluded item and a plain item ahead of a press item
C1_Witness ==
    /\ Len(derived.deviceUpdates) = 6
    /\ \E p, q \in DOMAIN derived.deviceUpdates :
          derived.deviceUpdates[p].press /\ ~derived.deviceUpdates[q].press
    /\ \E i, j \in DOMAIN in_items :
          /\ i < j
          /\ in_items[i].type = "Device" /\ ~in_items[i].press_2026
          /\ Qualifies(in_items[i], tz)
          /\ in_items[j].type = "Device" /\ in_items[j].press_2026
    /\ \E i \in DOMAIN in_items :
          in_items[i].bubble_exclude /\ in_items[i].type = "Device"

\* the items the example of C4 speaks of
IsPressExample(item) ==
    /\ item.latest_update = "Data expected 2026"
    /\ ~item.bubble_exclude
    /\ item.press_2026

\* the entry at position p stands before every press=false entry
AheadOfPlain(out, p) == \A q \in DOMAIN out : ~out[q].press => p < q

\* C4 as stated: every item with latest_update = "Data expected 2026",
\* bubble_exclude absent and press_2026 = true is in the feed built from its
\* list, ahead of every press=false entry.
C4_Original ==
    \A call \in FeedCalls :
        \A i \in DOMAIN call.input :
            IsPressExample(call.input[i]) =>
                \E p \in DOMAIN call.output :
                    /\ call.output[p].name = call.input[i].name
                    /\ AheadOfPlain(call.output, p)

PressCount(input) == Cardinality({i \in DOMAIN input : input[i].press_2026})

\* C4 (amended): such an item that is not a Drug of a "generic" company is in
\* the feed whenever its list holds at most 6 items with press_2026 = true,
\* and wherever it is in the feed it stands ahead of every press=false entry,
\* whatever the stages.
C4_PressExampleIncludedAndFirst ==
    \A call \in FeedCalls :
        \A i \in DOMAIN call.input :
            (IsPressExample(call.input[i]) /\ ~GenericDrug(call.input[i])) =>
                /\ PressCount(call.input) <= 6 =>
                      \E p \in DOMAIN call.output :
                          call.output[p].name = call.input[i].name
                /\ \A p \in DOMAIN call.output :
                      call.output[p].name = call.input[i].name =>
                          AheadOfPlain(call.output, p)

\* a press example of stage priority 4 stands in the feed ahead of a plain
\* entry of stage priority 1 that preceded it in the list
C4_Witness ==
    \E i, j \in DOMAIN in_items :
        /\ i < j
        /\ IsPressExample(in_items[j]) /\ in_items[j].type = "Device"
        /\ \E p, q \in DOMAIN derived.deviceUpdates :
              /\ p < q
              /\ derived.deviceUpdates[p].name = in_items[j].name
              /\ derived.deviceUpdates[q].name = in_items[i].name
              /\ ~derived.deviceUpdates[q].press
              /\ stagePriority(derived.deviceUpdates[q].stage)
                    < stagePriority(derived.deviceUpdates[p].stage)

QualifyingPositions(input, zone) ==
    {i \in DOMAIN input : Qualifies(input[i], zone)}

-----------------------------------------------------------------------------
(* Properties of the classifier (SpecClassify) *)

\* the rules of C6, in their order: the keywords and the value of each
CategoryRules ==
    <<[keywords |-> {"rate control"}, value |-> "Rate Control"],
      [keywords |-> {"rhythm control", "antiarrhythmic"}, value |-> "Rhythm Control"],
      [keywords |-> {"pfa"}, value |-> "PFA Ablation"],
      [keywords |-> {"rf", "cryo", "thermal"}, value |-> "Thermal Ablation"],
      [keywords |-> {"stroke prevention", "anticoagulant", "fxi", "laa"},
       value |-> "Stroke Prevention"]>>

\* the rules a lower-case text matches
MatchingRules(text) ==
    {r \in DOMAIN CategoryRules :
        \E k \in CategoryRules[r].keywords : includes(text, k)}

FirstRuleValue(text) ==
    LET hits == MatchingRules(text)
    IN  IF hits = {} THEN Null
        ELSE CategoryRules[CHOOSE r \in hits : \A other \in hits : r <= other].value

CategoryTextOf(item) ==
    toLowerCase(IF item.category = Null THEN "" ELSE item.category)

\* C6: mapCategory returns the value of the first rule, in the fixed order,
\* that the lower-cased category text (empty when missing) matches, and null
\* when none does; the stage text plays no part.
C6_MapCategoryIsFirstMatchingRule ==
    cl_category = FirstRuleValue(CategoryTextOf(cl_item))

\* a classified text that matches several rules, the third and a later one
C6_Witness ==
    /\ cl_item # NoItem
    /\ Cardinality(MatchingRules(CategoryTextOf(cl_item))) >= 2
    /\ 3 \in MatchingRules(CategoryTextOf(cl_item))
    /\ cl_category = "PFA Ablation"

\* C2 as stated: the stage text "Phase III" is classified Phase III and
\* "Phase II" is classified Phase II, every result being a canonical stage
\* or null.
C2_PhaseTextKeepsItsPhase ==
    /\ cl_item.stage = "Phase III" => cl_stage = "Phase III"
    /\ cl_item.stage = "Phase II" => cl_stage = "Phase II"
    /\ cl_stage \in Range(STAGE_ORDER) \cup {Null}

-----------------------------------------------------------------------------
(* Properties of the chip rows (SpecFacets) *)

\* 1-based position of a value in a canonical order, 0 when absent
PositionIn(value, order) ==
    IF value \in Range(order) THEN CHOOSE p \in DOMAIN order : order[p] = value
    ELSE 0

\* row lists values of order, each once, in the order of order
IsSubsequenceOf(row, order) ==
    /\ \A p \in DOMAIN row : row[p] \in Range(order)
    /\ \A p, q \in DOMAIN row :
          p < q => PositionIn(row[p], order) < PositionIn(row[q], order)

\* C5: the category and the stage chips are duplicate-free subsequences of
\* CATEGORY_ORDER and STAGE_ORDER, and a canonical value is a chip exactly
\* when some item maps to it.
C5_ChipsFollowCanonicalOrder ==
    /\ IsSubsequenceOf(fc_chips.category, CATEGORY_ORDER)
    /\ IsSubsequenceOf(fc_chips.stage, STAGE_ORDER)
    /\ \A v \in Range(CATEGORY_ORDER) :
          v \in Range(fc_chips.category)
              <=> \E i \in DOMAIN fc_items : mapCategory(fc_items[i]) = v
    /\ \A v \in Range(STAGE_ORDER) :
          v \in Range(fc_chips.stage)
              <=> \E i \in DOMAIN fc_items : mapStage(fc_items[i]) = v

\* three items, listed against the canonical order, two of one category and
\* one without a category: one category chip and three stage chips
C5_Witness ==
    /\ Len(fc_items) = 3
    /\ mapCategory(fc_items[1]) = mapCategory(fc_items[2])
    /\ mapCategory(fc_items[3]) = Null
    /\ Len(fc_chips.category) = 1
    /\ Len(fc_chips.stage) = 3
    /\ PositionIn(mapStage(fc_items[1]), STAGE_ORDER)
          > PositionIn(mapStage(fc_items[2]), STAGE_ORDER)

-----------------------------------------------------------------------------
(* Properties of the filter predicate and of the page (Spec) *)

\* the items of the stored dataset
LoadedItems == IF state_data = NullData THEN <<>> ELSE state_data.items

\* a facet lets a value through: no active filter, or the value is one
FacetAdmits(active, value) == active = {} \/ value \in active

FacetsAdmit(item) ==
    /\ FacetAdmits(state_filters.category, mapCategory(item))
    /\ FacetAdmits(state_filters.stage, mapStage(item))
    /\ FacetAdmits(state_filters.type, item.type)

\* C3: matchesFilters passes an item only if each of the three facets admits
\* it (an empty filter set admits everything, a non-empty one only its
\* members, so never a null mapped value); with empty search text it passes
\* exactly the items every facet admits, hence every item when all three
\* filter sets are empty as well.
C3_MatchesFiltersIsConjunctionOfFacets ==
    \A i \in DOMAIN LoadedItems :
        LET item == LoadedItems[i]
            passes == matchesFilters(item, state_filters, state_search)
        IN  /\ passes => FacetsAdmit(item)
            /\ state_search = "" => (passes <=> FacetsAdmit(item))
            /\ (state_filters.category # {} /\ mapCategory(item) = Null) => ~passes
            /\ (state_filters.stage # {} /\ mapStage(item) = Null) => ~passes
            /\ (/\ state_filters.category = {}
                /\ state_filters.stage = {}
                /\ state_filters.type = {}
                /\ state_search = "") => passes

\* category, stage and type filters are all active with empty search text:
\* an item passes, one fails on its type alone, one has no mapped category
C3_Witness ==
    /\ state_search = ""
    /\ state_filters.category # {} /\ state_filters.stage # {}
    /\ state_filters.type # {}
    /\ \E i, j, k \in DOMAIN LoadedItems :
          /\ matchesFilters(LoadedItems[i], state_filters, state_search)
          /\ ~matchesFilters(LoadedItems[j], state_filters, state_search)
          /\ mapCategory(LoadedItems[j]) \in state_filters.category
          /\ mapStage(LoadedItems[j]) \in state_filters.stage
          /\ mapCategory(LoadedItems[k]) = Null

\* the items of the dataset that satisfy matchesFilters now, in dataset order
MatchingItems ==
    KeepIndices(LoadedItems,
                {i \in DOMAIN LoadedItems :
                    matchesFilters(LoadedItems[i], state_filters, state_search)},
                1)

\* (a) a chip is active exactly when its value is in the filter set of its row
ActiveChipsAreTheFilters ==
    activeChips = {<<key, value>> \in FilterKeys \X UNION {state_filters[k] : k \in FilterKeys} :
                      value \in state_filters[key]}

\* (b) the cards are the matching items, in dataset order, and are counted
CardsAreTheMatchingItems ==
    pc = "ready" =>
        /\ Len(cardGrid) = Len(MatchingItems)
        /\ \A p \in DOMAIN cardGrid : cardGrid[p].title = MatchingItems[p].name
        /\ itemCount = NumToStr(Len(MatchingItems))
        /\ state_search = trim(state_search)

\* (c) a chip or the search listener exists only once the dataset is stored
ListenersOnlyAfterData ==
    (searchListener \/ \E key \in FilterKeys : chips[key] # <<>>) =>
        state_data # NullData

\* each change of a filter set adds or removes exactly one chip value of its row
FiltersChangeByToggle ==
    \A key \in FilterKeys :
        state_filters'[key] # state_filters[key] =>
            \E value \in Range(chips[key]) :
                /\ value \in state_filters[key] <=> value \notin state_filters'[key]
                /\ state_filters'[key] \ {value} = state_filters[key] \ {value}
                /\ \A other \in FilterKeys \ {key} :
                      state_filters'[other] = state_filters[other]

\* C10: after a successful init and any chip clicks and search inputs, (a) the
\* active chips are exactly the values in state.filters, each click toggling
\* one value, (b) the cards are exactly the matching items in dataset order
\* and itemCount is their number, (c) no listener exists before state.data is
\* stored.
C10_PageFollowsFiltersAndSearch ==
    /\ [](ActiveChipsAreTheFilters /\ CardsAreTheMatchingItems /\ ListenersOnlyAfterData)
    /\ [][FiltersChangeByToggle]_vars

\* filters of two rows are active and a search text is set: some card is shown
\* and some item is hidden
C10_Witness ==
    /\ pc = "ready"
    /\ state_search = "PFA"
    /\ Cardinality(activeChips) >= 2
    /\ \E a, b \in activeChips : a[1] # b[1]
    /\ Len(cardGrid) > 0
    /\ Len(cardGrid) < Len(LoadedItems)

\* The readout feed as C8 states it (app.js defines no getUpcomingReadouts and
\* init builds no such feed, so these definitions state the claim and model
\* no code): every trial with a readout becomes an entry; dated entries
\* first, by date, then the undated by readout text; at most 6
ReadoutEntries(items) ==
    LET flat(item) == [i \in DOMAIN item.trials |->
                          [item |-> item.name, trial |-> item.trials[i].name,
                           readout |-> item.trials[i].readout,
                           readout_date |-> item.trials[i].readout_date]]
        RECURSIVE Flatten(_)
        Flatten(rest) == IF Len(rest) = 0 THEN <<>>
                         ELSE flat(rest[1]) \o Flatten(Tail(rest))
        all == Flatten(items)
    IN  KeepIndices(all, {i \in DOMAIN all : all[i].readout # Null}, 1)

\* entry a sorts before entry b in the readout feed
ReadoutBefore(a, b) ==
    LET da == parseDate(a.readout_date)
        db == parseDate(b.readout_date)
    IN  IF da.valid /\ db.valid
        THEN \/ da.y < db.y
             \/ (da.y = db.y /\ da.m < db.m)
             \/ (da.y = db.y /\ da.m = db.m /\ da.d < db.d)
        ELSE IF da.valid # db.valid THEN da.valid
        ELSE LexLess(a.readout, b.readout)

RECURSIVE SortReadouts(_)
SortReadouts(entries) ==
    IF Len(entries) = 0 THEN <<>>
    ELSE LET first == CHOOSE i \in DOMAIN entries :
                         /\ \A j \in DOMAIN entries : ~ReadoutBefore(entries[j], entries[i])
                         /\ \A j \in 1..(i - 1) : ReadoutBefore(entries[i], entries[j])
         IN  <<entries[first]>>
                 \o SortReadouts(KeepIndices(entries, DOMAIN entries \ {first}, 1))

SpecifiedReadoutFeed(items) == slice(SortReadouts(ReadoutEntries(items)), 0, 6)

\* C8 as stated: once init is done the page holds the readout feed of the
\* dataset: #readoutCount counts its entries, one per trial with a readout,
\* at most 6.
C8_ReadoutFeedIsProduced ==
    pc = "ready" =>
        /\ readoutCount = NumToStr(Len(SpecifiedReadoutFeed(LoadedItems)))
        /\ Len(SpecifiedReadoutFeed(LoadedItems)) <= 6

\* the texts the page shows outside the cards
PageTexts ==
    {asOf, itemCount, readoutCount}
        \cup {child.text : child \in {c \in Range(deviceUpdateList) \cup Range(drugUpdateList)
                                              \cup UNION {Range(weeklyLists[w]) : w \in DOMAIN weeklyLists} :
                                          "text" \in DOMAIN c}}

\* C9 as stated: when the fetch or the JSON parse fails, the page reports
\* "data unavailable", fetch was called once, and no later step of init has
\* run.
C9_FailureIsReported ==
    pc = "failed" =>
        /\ \E text \in PageTexts : ContainsIgnoringCase(text, "data unavailable")
        /\ fetchCount = 1
        /\ state_data = NullData
        /\ \A key \in FilterKeys : chips[key] = <<>>
        /\ cardGrid = <<>> /\ deviceUpdateList = <<>> /\ drugUpdateList = <<>>
        /\ ~searchListener

=============================================================================
